---- MODULE Spec2Model ----
(***************************************************************************)
(* Model of the three commands of src/main.py (run, experiments,           *)
(* from_image): seed drawing, runner construction, progress-task           *)
(* registration, the per-experiment loop with its config write and its     *)
(* synchronous dream() call, and the final report.                         *)
(*                                                                         *)
(* Dream / DreamFromImage live in the esrgan_dream package, which is not   *)
(* part of src/; their dream() is modelled from the specification          *)
(* (section 4.3): load the model, then `iterations` passes, each followed  *)
(* by exactly one call of the callback; either step may raise.             *)
(***************************************************************************)
EXTENDS Integers, Sequences, FiniteSets

\* ---- bounds of the model -------------------------------------------------
\* random.randint(0, MAX_SEED); 2**32 - 1 in the source, small here so that
\* equal draws are reachable.
MAX_SEED == 1
\* largest value of the --experiments option / number of *.png files
MaxExperiments == 2
\* largest value of the --iterations option
MaxIterations == 2

Seeds == 0..MAX_SEED
Commands == {"run", "experiments", "from_image"}

VARIABLES
    cmd,            \* which command was invoked
    iterations,     \* --iterations
    experiments,    \* --experiments (the integer option of `experiments`)
    experiment,     \* run: content of the experiment file, or "missing"
    image_path,     \* from_image: "file", "dir" or "missing"
    images,         \* from_image: number of *.png files below image_path
    pc,             \* position in the command
    draws,          \* number of calls of random.randint so far
    numpy_seeds,    \* drawn numpy seeds (one element in from_image)
    torch_seeds,    \* drawn torch seeds (one element in from_image)
    dreams,         \* the runners, in list order
    tasks,          \* rich Progress: task id -> [total, completed]
    experiment_progress, \* list of (runner index, task id)
    overall_progress,    \* from_image: id of the total-progress task, 0 if none
    k,              \* position of the for loop in the list (0 before it)
    task,           \* loop variable `task` read by the callback
    it,             \* passes completed by the running dream()
    ran,            \* runner indices on which dream() was called, in order
    writes,         \* runner indices whose config file was written, in order
    files,          \* config files in `out`: set of <<name, content>>
    failedAt,       \* index of the runner whose dream() raised, 0 if none
    outcome,        \* "running", "ok" or the name of the raised error
    timer           \* experiments: "none", "started" (start taken) or
                    \* "stopped" (stop taken)

vars == <<cmd, iterations, experiments, experiment, image_path, images, pc,
          draws, numpy_seeds, torch_seeds, dreams, tasks, experiment_progress,
          overall_progress, k, task, it, ran, writes, files, failedAt, outcome,
          timer>>

inputs == <<cmd, iterations, experiments, experiment, image_path, images>>

\* ---- pure helpers --------------------------------------------------------

\* Dream.id / Dream.encoded_seed: a fingerprint that is a pure function of
\* the seed pair (specification, section 3).
EncodedSeed(a, b) == a * (MAX_SEED + 1) + b

\* A runner: its two seeds, the draws (positions in the random stream) they
\* came from, and the image it starts from (0 for a noise-seeded Dream).
Runner(a, b, da, db, img) ==
    [numpy_seed |-> a, torch_seed |-> b, src |-> {da, db}, image |-> img]

Id(d) == EncodedSeed(d.numpy_seed, d.torch_seed)

\* f"{out}/{experiment.id}.yml"
ConfigNameFixed(d) == 0
ConfigName(d) == Id(d)

\* experiment.dump(fp): the seeds are the only fields that differ between
\* the runners of one command.
ConfigContent(d) == <<d.numpy_seed, d.torch_seed>>

\* open(name, "w") followed by dump: create or overwrite.
WriteFile(fs, name, content) ==
    {f \in fs : f[1] # name} \cup {<<name, content>>}

FileNames(fs) == {f[1] : f \in fs}

\* progress.add_task(..., total=total): the new task gets the next id.
AddTask(ts, total) == Append(ts, [total |-> total, completed |-> 0])

\* progress.advance(t)
Advance(ts, t) == [ts EXCEPT ![t].completed = @ + 1]


\* The registered task of the j-th runner: experiment_progress[j] is the
\* tuple (experiment, task).
TaskOf(j) == experiment_progress[j][2]

\* The callbacks are closures over the loop variable `task`; they read it
\* when they are called.
CallbackTaskLast == TaskOf(Len(experiment_progress))
CallbackTaskFirst == TaskOf(1)
CallbackTask == task

\* Sum of the completed counts of the per-runner tasks 1..n.
RECURSIVE SumCompleted(_)
SumCompleted(n) ==
    IF n = 0 THEN 0 ELSE tasks[TaskOf(n)].completed + SumCompleted(n - 1)

\* ---- initial states: one invocation of one command ------------------------

Init ==
    /\ cmd \in Commands
    /\ iterations \in 0..MaxIterations
    /\ experiments \in (IF cmd = "experiments" THEN 0..MaxExperiments ELSE {0})
    /\ experiment \in (IF cmd = "run"
                         THEN {"missing"} \cup (Seeds \X Seeds)
                         ELSE {"missing"})
    /\ image_path \in (IF cmd = "from_image"
                         THEN {"file", "dir", "missing"}
                         ELSE {"missing"})
    /\ images \in (IF image_path = "dir" THEN 0..MaxExperiments ELSE {0})
    /\ pc = "mkdir"
    /\ draws = 0
    /\ numpy_seeds = <<>>
    /\ torch_seeds = <<>>
    /\ dreams = <<>>
    /\ tasks = <<>>
    /\ experiment_progress = <<>>
    /\ overall_progress = 0
    /\ k = 0
    /\ task = 0
    /\ it = 0
    /\ ran = <<>>
    /\ writes = <<>>
    /\ files = {}
    /\ failedAt = 0
    /\ outcome = "running"
    /\ timer = "none"

\* ---- set-up steps --------------------------------------------------------

\* out.mkdir(exist_ok=True, parents=True)
Mkdir ==
    /\ pc = "mkdir"
    /\ pc' = (IF cmd = "run" THEN "load" ELSE "draw_numpy")
    /\ UNCHANGED <<inputs, timer, draws, numpy_seeds, torch_seeds, dreams, tasks,
                   experiment_progress, overall_progress, k, task, it, ran,
                   writes, files, failedAt, outcome>>

\* run: with experiment.open() as fp: dream = Dream.load(fp)
LoadExperiment ==
    /\ pc = "load"
    /\ IF experiment = "missing"
         THEN /\ outcome' = "FileNotFoundError"
              /\ pc' = "done"
              /\ UNCHANGED dreams
         ELSE /\ dreams' = <<Runner(experiment[1], experiment[2], 0, 0, 0)>>
              /\ pc' = "write"
              /\ UNCHANGED outcome
    /\ UNCHANGED <<inputs, timer, draws, numpy_seeds, torch_seeds, tasks,
                   experiment_progress, overall_progress, k, task, it, ran,
                   writes, files, failedAt>>

\* Number of random.randint calls of one seed statement: a comprehension over
\* range(experiments) in `experiments`, a single call in from_image.
DrawCount == IF cmd = "experiments" THEN experiments ELSE 1

\* numpy_seeds = [random.randint(0, MAX_SEED) for _ in range(experiments)]
\* numpy_seed = random.randint(0, MAX_SEED)
DrawNumpySeeds ==
    /\ pc = "draw_numpy"
    /\ numpy_seeds' \in [1..DrawCount -> Seeds]
    /\ draws' = draws + DrawCount
    /\ pc' = "draw_torch"
    /\ UNCHANGED <<inputs, timer, torch_seeds, dreams, tasks, experiment_progress,
                   overall_progress, k, task, it, ran, writes, files,
                   failedAt, outcome>>

\* torch_seeds = [random.randint(0, MAX_SEED) for _ in range(experiments)]
\* torch_seed = random.randint(0, MAX_SEED)
DrawTorchSeeds ==
    /\ pc = "draw_torch"
    /\ torch_seeds' \in [1..DrawCount -> Seeds]
    /\ draws' = draws + DrawCount
    /\ pc' = "setup"
    /\ UNCHANGED <<inputs, timer, numpy_seeds, dreams, tasks, experiment_progress,
                   overall_progress, k, task, it, ran, writes, files,
                   failedAt, outcome>>

\* experiments = [Dream(numpy_seed, torch_seed, ...) for ... in zip(...)]
\* start = time.time()
SetupExperiments ==
    /\ pc = "setup"
    /\ cmd = "experiments"
    /\ dreams' = [i \in 1..experiments |->
                    Runner(numpy_seeds[i], torch_seeds[i],
                           i, experiments + i, 0)]
    /\ timer' = "started"
    /\ pc' = "add_tasks"
    /\ UNCHANGED <<inputs, draws, numpy_seeds, torch_seeds, tasks,
                   experiment_progress, overall_progress, k, task, it, ran,
                   writes, files, failedAt, outcome>>

\* Number of runners from_image builds: one for a file, one per *.png below a
\* directory, none when the path is neither (glob yields nothing).
ImageCount ==
    IF image_path = "file" THEN 1
    ELSE IF image_path = "dir" THEN images
    ELSE 0

\* if image_path.is_file(): dreams = [DreamFromImage(image_path, ...)]
\* else: dreams = [DreamFromImage(image, ...) for image in glob("*.png")]
BuildDreams ==
    /\ pc = "setup"
    /\ cmd = "from_image"
    /\ dreams' = [i \in 1..ImageCount |->
                    Runner(numpy_seeds[1], torch_seeds[1], 1, 2, i)]
    /\ pc' = "add_overall"
    /\ UNCHANGED <<inputs, timer, draws, numpy_seeds, torch_seeds, tasks,
                   experiment_progress, overall_progress, k, task, it, ran,
                   writes, files, failedAt, outcome>>

\* overall_progress = progress.add_task("Total progress",
\*                                      total=len(dreams) * iterations)
AddOverallTask ==
    /\ pc = "add_overall"
    /\ tasks' = AddTask(tasks, Len(dreams) * iterations)
    /\ overall_progress' = Len(tasks) + 1
    /\ pc' = "add_tasks"
    /\ UNCHANGED <<inputs, timer, draws, numpy_seeds, torch_seeds, dreams,
                   experiment_progress, k, task, it, ran, writes, files,
                   failedAt, outcome>>

\* One progress task per runner, total=iterations, in list order:
\*   experiment_progress = [(experiment, progress.add_task(...)) for ...]
\*   tasks = [(dream, tracking_task(dream)) for dream in dreams]
\*   run: task = progress.add_task(..., total=iterations)
AddTasks ==
    /\ pc = "add_tasks"
    /\ tasks' = tasks \o [i \in 1..Len(dreams) |->
                            [total |-> iterations, completed |-> 0]]
    /\ experiment_progress' = [i \in 1..Len(dreams) |-> <<i, Len(tasks) + i>>]
    /\ pc' = "loop"
    /\ UNCHANGED <<inputs, timer, draws, numpy_seeds, torch_seeds, dreams,
                   overall_progress, k, task, it, ran, writes, files,
                   failedAt, outcome>>

\* run: task = progress.add_task(..., total=iterations)
AddRunTask ==
    /\ pc = "add_run_task"
    /\ tasks' = AddTask(tasks, iterations)
    /\ experiment_progress' = <<<<1, Len(tasks) + 1>>>>
    /\ task' = Len(tasks) + 1
    /\ pc' = "dream"
    /\ UNCHANGED <<inputs, timer, draws, numpy_seeds, torch_seeds, dreams,
                   overall_progress, k, it, ran, writes, files, failedAt,
                   outcome>>

\* ---- the loop over the runners -------------------------------------------

\* The runner the command is working on: the only one in run, the k-th of
\* the list inside the for loop.
Current == IF cmd = "run" THEN 1 ELSE k

\* for experiment, task in experiment_progress:   (next element)
\* for dream, task in tasks:  def update(): ...
ForNext ==
    /\ pc = "loop"
    /\ k < Len(experiment_progress)
    /\ k' = k + 1
    /\ task' = TaskOf(k + 1)
    /\ pc' = (IF cmd = "experiments" THEN "write" ELSE "dream")
    /\ UNCHANGED <<inputs, timer, draws, numpy_seeds, torch_seeds, dreams, tasks,
                   experiment_progress, overall_progress, it, ran, writes,
                   files, failedAt, outcome>>

\* The list is exhausted: experiments goes on to its report, from_image ends.
ForEnd ==
    /\ pc = "loop"
    /\ k = Len(experiment_progress)
    /\ IF cmd = "experiments"
         THEN pc' = "report" /\ UNCHANGED outcome
         ELSE pc' = "done" /\ outcome' = "ok"
    /\ UNCHANGED <<inputs, timer, draws, numpy_seeds, torch_seeds, dreams, tasks,
                   experiment_progress, overall_progress, k, task, it, ran,
                   writes, files, failedAt>>

\* with open(f"{out}/{experiment.id}.yml", "w") as fp: experiment.dump(fp)
WriteConfig ==
    /\ pc = "write"
    /\ files' = WriteFile(files, ConfigName(dreams[Current]),
                          ConfigContent(dreams[Current]))
    /\ writes' = Append(writes, Current)
    /\ pc' = (IF cmd = "run" THEN "add_run_task" ELSE "dream")
    /\ UNCHANGED <<inputs, timer, draws, numpy_seeds, torch_seeds, dreams, tasks,
                   experiment_progress, overall_progress, k, task, it, ran,
                   failedAt, outcome>>

\* ---- dream(iterations, out, callback) ------------------------------------

\* Where control goes when dream() raises: no command catches the exception,
\* it leaves the loop and the command.
AfterFailureContinue == IF cmd = "run" THEN "done" ELSE "loop"
AfterFailure == "done"

\* dream() is entered and loads its model.
DreamLoad ==
    /\ pc = "dream"
    /\ ran' = Append(ran, Current)
    /\ it' = 0
    /\ pc' = "iterate"
    /\ UNCHANGED <<inputs, timer, draws, numpy_seeds, torch_seeds, dreams, tasks,
                   experiment_progress, overall_progress, k, task, writes,
                   files, failedAt, outcome>>

\* dream() is entered and the model cannot be loaded.
DreamLoadFail ==
    /\ pc = "dream"
    /\ ran' = Append(ran, Current)
    /\ failedAt' = (IF failedAt = 0 THEN Current ELSE failedAt)
    /\ outcome' = "ModelLoadFailure"
    /\ pc' = AfterFailure
    /\ UNCHANGED <<inputs, timer, draws, numpy_seeds, torch_seeds, dreams, tasks,
                   experiment_progress, overall_progress, k, task, it, writes,
                   files>>

\* One upscaling pass completes; the callback is called next.
DreamIterate ==
    /\ pc = "iterate"
    /\ it < iterations
    /\ it' = it + 1
    /\ pc' = "callback"
    /\ UNCHANGED <<inputs, timer, draws, numpy_seeds, torch_seeds, dreams, tasks,
                   experiment_progress, overall_progress, k, task, ran,
                   writes, files, failedAt, outcome>>

\* One upscaling pass raises.
DreamIterateFail ==
    /\ pc = "iterate"
    /\ it < iterations
    /\ failedAt' = (IF failedAt = 0 THEN Current ELSE failedAt)
    /\ outcome' = "TransformFailure"
    /\ pc' = AfterFailure
    /\ UNCHANGED <<inputs, timer, draws, numpy_seeds, torch_seeds, dreams, tasks,
                   experiment_progress, overall_progress, k, task, it, ran,
                   writes, files>>

\* All passes are done: dream() returns to the command.
DreamReturn ==
    /\ pc = "iterate"
    /\ it = iterations
    /\ IF cmd = "run"
         THEN pc' = "done" /\ outcome' = "ok"
         ELSE pc' = "loop" /\ UNCHANGED outcome
    /\ UNCHANGED <<inputs, timer, draws, numpy_seeds, torch_seeds, dreams, tasks,
                   experiment_progress, overall_progress, k, task, it, ran,
                   writes, files, failedAt>>

\* ---- the callbacks -------------------------------------------------------

\* run, experiments: lambda: progress.advance(task)
Callback ==
    /\ pc = "callback"
    /\ cmd \in {"run", "experiments"}
    /\ tasks' = Advance(tasks, CallbackTask)
    /\ pc' = "iterate"
    /\ UNCHANGED <<inputs, timer, draws, numpy_seeds, torch_seeds, dreams,
                   experiment_progress, overall_progress, k, task, it, ran,
                   writes, files, failedAt, outcome>>

\* from_image, update(), first statement: progress.advance(overall_progress)
UpdateOverallSet ==
    /\ pc = "callback"
    /\ cmd = "from_image"
    /\ tasks' = [tasks EXCEPT ![overall_progress].completed = it]
    /\ pc' = "update_task"
    /\ UNCHANGED <<inputs, timer, draws, numpy_seeds, torch_seeds, dreams,
                   experiment_progress, overall_progress, k, task, it, ran,
                   writes, files, failedAt, outcome>>

UpdateOverallSkip ==
    /\ pc = "callback"
    /\ cmd = "from_image"
    /\ pc' = "update_task"
    /\ UNCHANGED <<inputs, timer, draws, numpy_seeds, torch_seeds, dreams, tasks,
                   experiment_progress, overall_progress, k, task, it, ran,
                   writes, files, failedAt, outcome>>

UpdateOverall ==
    /\ pc = "callback"
    /\ cmd = "from_image"
    /\ tasks' = Advance(tasks, overall_progress)
    /\ pc' = "update_task"
    /\ UNCHANGED <<inputs, timer, draws, numpy_seeds, torch_seeds, dreams,
                   experiment_progress, overall_progress, k, task, it, ran,
                   writes, files, failedAt, outcome>>

\* from_image, update(), second statement: progress.advance(task)
UpdateTask ==
    /\ pc = "update_task"
    /\ tasks' = Advance(tasks, CallbackTask)
    /\ pc' = "iterate"
    /\ UNCHANGED <<inputs, timer, draws, numpy_seeds, torch_seeds, dreams,
                   experiment_progress, overall_progress, k, task, it, ran,
                   writes, files, failedAt, outcome>>

\* ---- the end of `experiments` --------------------------------------------

\* stop = time.time(); n = len(experiments)
\* typer.secho(f"... ({(stop - start)/n:.2f} s/experiment))")
Report ==
    /\ pc = "report"
    /\ outcome' = (IF Len(dreams) = 0 THEN "ZeroDivisionError" ELSE "ok")
    /\ timer' = "stopped"
    /\ pc' = "done"
    /\ UNCHANGED <<inputs, draws, numpy_seeds, torch_seeds, dreams, tasks,
                   experiment_progress, overall_progress, k, task, it, ran,
                   writes, files, failedAt>>

Next ==
    \/ Mkdir
    \/ LoadExperiment
    \/ DrawNumpySeeds
    \/ DrawTorchSeeds
    \/ SetupExperiments
    \/ BuildDreams
    \/ AddOverallTask
    \/ AddTasks
    \/ AddRunTask
    \/ ForNext
    \/ ForEnd
    \/ WriteConfig
    \/ DreamLoad
    \/ DreamLoadFail
    \/ DreamIterate
    \/ DreamIterateFail
    \/ DreamReturn
    \/ Callback
    \/ UpdateOverall
    \/ UpdateTask
    \/ Report

Spec == Init /\ [][Next]_vars

\* ---- type invariant ------------------------------------------------------

TypeOK ==
    /\ cmd \in Commands
    /\ iterations \in 0..MaxIterations
    /\ pc \in {"mkdir", "load", "draw_numpy", "draw_torch", "setup",
               "add_overall", "add_tasks", "add_run_task", "loop", "write",
               "dream", "iterate", "callback", "update_task", "report",
               "done"}
    /\ draws \in Nat
    /\ k \in 0..Len(dreams)
    /\ it \in 0..iterations
    /\ failedAt \in 0..Len(dreams)
    /\ outcome \in {"running", "ok", "FileNotFoundError", "ModelLoadFailure",
                    "TransformFailure", "ZeroDivisionError"}
    /\ (pc = "done") = (outcome # "running")
    /\ timer \in {"none", "started", "stopped"}

\* ---- vocabulary of the properties ----------------------------------------

Batch == cmd \in {"experiments", "from_image"}

\* dream() of the current runner is about to be called or is executing.
InDream == pc \in {"dream", "iterate", "callback", "update_task"}

\* The runners on which dream() has been called.
RanSet == {ran[i] : i \in 1..Len(ran)}

\* The ids of the runners of the command.
Ids == {Id(dreams[i]) : i \in 1..Len(dreams)}

DistinctIds ==
    \A i, j \in 1..Len(dreams) : i # j => Id(dreams[i]) # Id(dreams[j])

\* The last runner of the list that has the given id.
LastWithId(n) ==
    CHOOSE i \in 1..Len(dreams) :
        /\ Id(dreams[i]) = n
        /\ \A j \in 1..Len(dreams) : Id(dreams[j]) = n => j <= i

\* ---- C1 ------------------------------------------------------------------
\* C1: when from_image finishes a batch in which every dream() called back
\* once per iteration and returned, the overall task has been advanced
\* exactly len(dreams) * iterations times, which is its declared total.
C1_OverallEqualsTotal ==
    (cmd = "from_image" /\ pc = "done" /\ outcome = "ok") =>
        /\ tasks[overall_progress].completed = Len(dreams) * iterations
        /\ tasks[overall_progress].total = Len(dreams) * iterations

C1_Witness ==
    /\ cmd = "from_image" /\ pc = "done" /\ outcome = "ok"
    /\ Len(dreams) >= 2 /\ iterations >= 2
    /\ tasks[overall_progress].completed = Len(dreams) * iterations

\* ---- C2 ------------------------------------------------------------------
\* C2: in every command, whenever dream() of a runner is about to be called or
\* is executing, that runner's config file is present in the output
\* directory.  from_image never writes a config file.
C2_ConfigBeforeDream ==
    InDream => Id(dreams[Current]) \in FileNames(files)

\* ---- C3 ------------------------------------------------------------------
\* C3: from_image on a directory of N images builds N runners and no two of
\* them got their seeds from the same draws.  The code draws one pair before
\* it looks at the path and hands it to every runner.
C3_OwnSeedPair ==
    (cmd = "from_image" /\ image_path = "dir"
       /\ pc \notin {"mkdir", "draw_numpy", "draw_torch", "setup"}) =>
        /\ Len(dreams) = images
        /\ \A i, j \in 1..Len(dreams) :
              i # j => dreams[i].src \cap dreams[j].src = {}

\* ---- C4 ------------------------------------------------------------------
\* C4: when a batch command has ended after dream() of runner k raised, every
\* runner after k has still been run.  The exception is not caught, so the
\* loop ends with runner k.
C4_SiblingsStillRun ==
    (Batch /\ pc = "done" /\ failedAt > 0) =>
        \A j \in (failedAt + 1)..Len(dreams) : j \in RanSet

\* ---- C5 ------------------------------------------------------------------
\* C5: in a batch command the runners are run in list order, and a callback
\* made while runner k is running advances the task registered for runner k
\* by one and changes no other runner's task.
C5_OrderedAttribution ==
    [][Batch =>
        /\ \A i \in 1..Len(ran') : ran'[i] = i
        /\ pc \in {"callback", "update_task"} =>
              /\ \A j \in 1..Len(experiment_progress) :
                    tasks'[TaskOf(j)] # tasks[TaskOf(j)] => j = ran[Len(ran)]
              /\ pc' = "iterate" =>
                    tasks'[TaskOf(ran[Len(ran)])].completed =
                        tasks[TaskOf(ran[Len(ran)])].completed + 1]_vars

C5_Witness ==
    /\ Batch /\ Len(dreams) >= 2 /\ Len(ran) = 2 /\ pc = "iterate"
    /\ tasks[TaskOf(2)].completed >= 1
    /\ tasks[TaskOf(1)].completed = iterations

\* ---- C6 ------------------------------------------------------------------
\* C6: in `experiments`, outside a callback, there is one task that belongs
\* to no experiment and whose count is the sum of the experiments' counts.
\* `experiments` registers no such task; its callback advances only `task`.
C6_ExperimentsOverallCounter ==
    (cmd = "experiments" /\ pc # "callback"
       /\ SumCompleted(Len(experiment_progress)) > 0) =>
        \E t \in DOMAIN tasks :
            /\ \A j \in 1..Len(experiment_progress) : t # TaskOf(j)
            /\ tasks[t].completed = SumCompleted(Len(experiment_progress))

\* ---- C7 ------------------------------------------------------------------
\* C7: in a batch command, from the first dream() call on, random.randint has
\* been called exactly twice per runner.  from_image calls it twice per
\* command (see C3).
C7_TwoDrawsPerExperiment ==
    (Batch /\ Len(ran) > 0) => draws = 2 * Len(dreams)

\* ---- C8 ------------------------------------------------------------------
\* C8 as stated: after `experiments` has run all E experiments, there are E
\* config files and the E ids are pairwise distinct.
C8_DistinctConfigFiles ==
    (cmd = "experiments" /\ pc \in {"report", "done"} /\ failedAt = 0) =>
        /\ Cardinality(FileNames(files)) = Len(dreams)
        /\ DistinctIds

\* C8 as amended: after `experiments` has run all E experiments, the output
\* directory holds exactly one config file per distinct id of the batch, with
\* the config of the last experiment that has this id; there are E files
\* exactly when the E ids are pairwise distinct.
C8_OneFilePerDistinctId ==
    (cmd = "experiments" /\ pc \in {"report", "done"} /\ failedAt = 0) =>
        /\ FileNames(files) = Ids
        /\ Cardinality(files) = Cardinality(Ids)
        /\ \A f \in files : f[2] = ConfigContent(dreams[LastWithId(f[1])])
        /\ (Cardinality(files) = Len(dreams)) <=> DistinctIds

C8_Witness ==
    /\ cmd = "experiments" /\ pc = "done" /\ failedAt = 0
    /\ Len(dreams) >= 2
    /\ ~DistinctIds
    /\ Cardinality(files) < Len(dreams)

\* ---- C9 ------------------------------------------------------------------
\* C9: no command ends successfully after a set-up failure: run with a
\* missing experiment file, from_image with a path that is neither a file nor
\* a directory.  from_image builds an empty list for such a path and ends
\* normally.
C9_BadPathIsError ==
    (pc = "done" /\ outcome = "ok") =>
        /\ ~(cmd = "from_image" /\ image_path = "missing")
        /\ ~(cmd = "run" /\ experiment = "missing")

\* ---- C10 -----------------------------------------------------------------
\* The state `experiments` is left in after dream() of experiment k raised.
FailedState ==
    /\ writes = [i \in 1..failedAt |-> i]
    /\ FileNames(files) = {Id(dreams[i]) : i \in 1..failedAt}
    /\ \A j \in (failedAt + 1)..Len(dreams) : tasks[TaskOf(j)].completed = 0

\* C10: the step in which dream() of experiment k raises changes no config
\* file, and `experiments` then ends with the config files of experiments
\* 1..k written (k included), none written for a later experiment, and the
\* tasks of all later experiments at 0.
C10_StateAfterFailure ==
    [][cmd = "experiments" =>
        /\ (failedAt = 0 /\ failedAt' > 0) =>
              files' = files /\ writes' = writes
        /\ (pc' = "done" /\ failedAt' > 0) => FailedState']_vars

C10_Witness ==
    /\ cmd = "experiments" /\ pc = "done"
    /\ failedAt = 1 /\ Len(dreams) >= 2
    /\ outcome = "TransformFailure"
    /\ tasks[TaskOf(1)].completed >= 1
    /\ Cardinality(files) = 1

\* ---- C11 -----------------------------------------------------------------
\* C11: `experiments` takes its start time before the first config write and
\* its stop time after the last run, and once every run has returned it ends
\* with its report and without an error, whatever the number of experiments.
\* With no experiment, n = len(experiments) is 0 and (stop - start)/n raises.
C11_ReportWithoutError ==
    cmd = "experiments" =>
        /\ writes # <<>> => timer # "none"
        /\ timer = "stopped" => (k = Len(dreams) /\ Len(ran) = Len(dreams))
        /\ (pc = "done" /\ failedAt = 0) =>
              (timer = "stopped" /\ outcome = "ok")

\* ---- C12 -----------------------------------------------------------------
\* The count of the task registered for the j-th runner.
Completed(j) == tasks[TaskOf(j)].completed

\* C12: in a batch command, once the per-runner tasks are registered, there
\* is an index m such that every runner before m has its count equal to
\* `iterations`, every runner after m has its count at 0 and only runner m
\* may be in between; no count exceeds its declared total `iterations`.
C12_SequentialPrefix ==
    (Batch /\ Len(experiment_progress) > 0) =>
        /\ \E m \in 1..Len(experiment_progress) :
              /\ \A j \in 1..(m - 1) : Completed(j) = iterations
              /\ \A j \in (m + 1)..Len(experiment_progress) : Completed(j) = 0
        /\ \A j \in 1..Len(experiment_progress) :
              /\ Completed(j) \in 0..iterations
              /\ tasks[TaskOf(j)].total = iterations

C12_Witness ==
    /\ Batch /\ Len(experiment_progress) >= 2
    /\ iterations >= 2
    /\ Completed(1) = iterations
    /\ Completed(2) > 0 /\ Completed(2) < iterations

\* ---- C13 -----------------------------------------------------------------
\* The count of the overall task of from_image.
Overall == tasks[overall_progress].completed

\* C13: in from_image, once the overall task exists, its count equals the sum
\* of the per-image counts whenever update() is not between its two
\* statements, and is one more than that sum between them (the overall task
\* is advanced first); every step leaves the overall count unchanged or adds
\* exactly 1 to it.
C13_OverallIsSum ==
    [][(cmd = "from_image" /\ overall_progress' # 0) =>
        /\ pc' # "update_task" =>
              Overall' = SumCompleted(Len(experiment_progress))'
        /\ pc' = "update_task" =>
              Overall' = SumCompleted(Len(experiment_progress))' + 1
        /\ overall_progress # 0 =>
              (Overall' = Overall \/ Overall' = Overall + 1)]_vars

C13_Witness ==
    /\ cmd = "from_image" /\ pc = "update_task"
    /\ Len(dreams) >= 2 /\ k = 2 /\ iterations >= 1
    /\ Overall = SumCompleted(Len(experiment_progress)) + 1
    /\ SumCompleted(Len(experiment_progress)) >= iterations

====
